---- MODULE Spec2Model ----
(***************************************************************************)
(* Model of obsidian-push: the push core (transformContent,               *)
(* pushSingleFile, pushMultiple) and the plugin's pull commands            *)
(* (computeTargetFilePath, pullFile, pull-selected-files).                 *)
(*                                                                         *)
(* Strings are sequences of one-character strings, so that path and        *)
(* content manipulation is computed as the code computes it.               *)
(***************************************************************************)
EXTENDS Integers, Sequences, FiniteSets, TLC

(***************************************************************************)
(* Bounds of the model.                                                    *)
(***************************************************************************)
\* commands (push / pull, single or batch) started one after the other in
\* one behaviour
MaxCmds == 1
\* I/O faults injected in one behaviour
MaxFaults == 1
\* times the wall clock is seen to have advanced in one behaviour
MaxTicks == 1
\* documents in one batch
MaxBatch == 3
\* longest strict prefix of the content a partial write is seen to leave
MaxPartial == 1
\* longest raw content given to transformContent as an input
MaxRaw == 9
\* longest logical path given to the path computation as an input
MaxPath == 5

(***************************************************************************)
(* String helpers.                                                         *)
(***************************************************************************)
NL == "\n"

\* s starts with pre at position i (1-based)
MatchAt(s, i, pre) ==
    /\ i >= 1
    /\ i + Len(pre) - 1 <= Len(s)
    /\ \A k \in 1..Len(pre) : s[i + k - 1] = pre[k]

\* the characters of s from position i to the end
From(s, i) == SubSeq(s, i, Len(s))

\* positions of character c in s
Positions(s, c) == {i \in 1..Len(s) : s[i] = c}

Max(S) == CHOOSE x \in S : \A y \in S : y <= x
Min(S) == CHOOSE x \in S : \A y \in S : x <= y

\* String.prototype.replace(/tok/g, rep): left to right, non-overlapping
RECURSIVE ReplaceAll(_, _, _)
ReplaceAll(s, tok, rep) ==
    IF Len(s) = 0 THEN <<>>
    ELSE IF MatchAt(s, 1, tok)
         THEN rep \o ReplaceAll(From(s, Len(tok) + 1), tok, rep)
         ELSE <<s[1]>> \o ReplaceAll(Tail(s), tok, rep)

Digit(n) == <<"0", "1", "2", "3", "4", "5", "6", "7", "8", "9">>[n + 1]

\* String(n) for a non-negative integer
RECURSIVE NumStr(_)
NumStr(n) == IF n < 10 THEN <<Digit(n)>> ELSE NumStr(n \div 10) \o <<Digit(n % 10)>>

\* String(n).padStart(l, "0")
RECURSIVE PadStart(_, _)
PadStart(s, l) == IF Len(s) >= l THEN s ELSE PadStart(<<"0">> \o s, l)

pad(n) == PadStart(NumStr(n), 2)

(***************************************************************************)
(* The wall clock: `now' counts seconds since 2024-01-01 00:00:00 local    *)
(* time; the Date getters are computed from it.                            *)
(***************************************************************************)
getFullYear(t) == 2024
getMonth(t)    == 0
getDate(t)     == 1 + (t \div 86400)
getHours(t)    == (t \div 3600) % 24
getMinutes(t)  == (t \div 60) % 60
getSeconds(t)  == t % 60

formatTimestamp(fmt, t) ==
    LET s1 == ReplaceAll(fmt, <<"Y", "Y", "Y", "Y">>, NumStr(getFullYear(t)))
        s2 == ReplaceAll(s1, <<"M", "M">>, pad(getMonth(t) + 1))
        s3 == ReplaceAll(s2, <<"D", "D">>, pad(getDate(t)))
        s4 == ReplaceAll(s3, <<"H", "H">>, pad(getHours(t)))
        s5 == ReplaceAll(s4, <<"m", "m">>, pad(getMinutes(t)))
    IN  ReplaceAll(s5, <<"s", "s">>, pad(getSeconds(t)))

DefaultTimestampFormat ==
    <<"Y", "Y", "Y", "Y", "-", "M", "M", "-", "D", "D", " ", "H", "H", ":", "m", "m">>

(***************************************************************************)
(* FRONTMATTER_RE = /^---\n[\s\S]*?\n---\n?/                               *)
(***************************************************************************)
FmOpen  == <<"-", "-", "-", NL>>
FmClose == <<NL, "-", "-", "-">>

\* positions at which the closing "\n---" of a match may start
FmCloseAt(s) ==
    IF MatchAt(s, 1, FmOpen)
    THEN {j \in (Len(FmOpen) + 1)..Len(s) : MatchAt(s, j, FmClose)}
    ELSE {}

FRONTMATTER_RE_test(s) == FmCloseAt(s) # {}

\* index of the last character of the (lazy) match
FmMatchEnd(s) ==
    LET j == Min(FmCloseAt(s))
        e == j + Len(FmClose) - 1
    IN  IF e + 1 <= Len(s) /\ s[e + 1] = NL THEN e + 1 ELSE e

HeaderOpen  == <<"<", "!", "-", "-", " ", "P", "u", "s", "h", "e", "d", ":", " ">>
HeaderClose == <<" ", "-", "-", ">", NL>>

\* bug variant of transformContent: the header is added whatever
\* addTimestampHeader says
transformContentAlwaysStamp(raw, opts, t) ==
    LET strip == opts.sanitizeFrontmatter /\ FRONTMATTER_RE_test(raw)
        c1    == IF strip THEN From(raw, FmMatchEnd(raw) + 1) ELSE raw
        fmt   == IF opts.timestampFormat = <<>> THEN DefaultTimestampFormat
                 ELSE opts.timestampFormat
    IN  [content     |-> HeaderOpen \o formatTimestamp(fmt, t) \o HeaderClose \o c1,
         transformed |-> TRUE]

\* lines 65-83; t is the reading of the clock (new Date()) in formatTimestamp
transformContent(raw, opts, t) ==
    LET strip == opts.sanitizeFrontmatter /\ FRONTMATTER_RE_test(raw)
        c1    == IF strip THEN From(raw, FmMatchEnd(raw) + 1) ELSE raw
        fmt   == IF opts.timestampFormat = <<>> THEN DefaultTimestampFormat
                 ELSE opts.timestampFormat
        c2    == IF opts.addTimestampHeader
                 THEN HeaderOpen \o formatTimestamp(fmt, t) \o HeaderClose \o c1
                 ELSE c1
    IN  [content |-> c2, transformed |-> strip \/ opts.addTimestampHeader]

(***************************************************************************)
(* Node's path functions on POSIX paths without "." / ".." segments.       *)
(***************************************************************************)
\* path.basename(p)
basename(p) ==
    LET sl == Positions(p, "/")
    IN  IF sl = {} THEN p ELSE From(p, Max(sl) + 1)

\* path.dirname(p), for a path that contains a "/"
dirname(p) ==
    LET sl == Positions(p, "/")
    IN  IF sl = {} THEN <<".">>
        ELSE IF Max(sl) = 1 THEN <<"/">> ELSE SubSeq(p, 1, Max(sl) - 1)

\* path.extname(p): from the last "." of the last segment, "" for none or a
\* leading dot
extname(p) ==
    LET b    == basename(p)
        dots == Positions(b, ".")
    IN  IF dots = {} \/ Max(dots) = 1 THEN <<>> ELSE From(b, Max(dots))

\* path.join(base, rel) for a normalised base and a relative rel
join(base, rel) == base \o <<"/">> \o rel

\* s.replace(/\.[^.]+$/, ""): the last "." when followed by one or more
\* characters up to the end (any character but ".", "/" included)
StripLastExt(s) ==
    LET dots == Positions(s, ".")
    IN  IF dots # {} /\ Max(dots) < Len(s) THEN SubSeq(s, 1, Max(dots) - 1) ELSE s

\* bug variant of pushDestPath: replicateFolders is not looked at, the
\* folders of the logical path are always kept
pushDestPathNoFlatten(filePath, ctx, tr) ==
    LET r2 == IF tr.forceExtension # <<>>
              THEN StripLastExt(filePath) \o tr.forceExtension ELSE filePath
    IN  join(ctx.targetBase, r2)

\* lines 93-103 of pushSingleFile, and computeTargetFilePath of main.ts
pushDestPath(filePath, ctx, tr) ==
    LET r1 == IF ~ctx.replicateFolders THEN basename(filePath) ELSE filePath
        r2 == IF tr.forceExtension # <<>>
              THEN StripLastExt(r1) \o tr.forceExtension ELSE r1
    IN  join(ctx.targetBase, r2)

\* bug variant of computeTargetFilePath: the forced extension is appended
\* to the old one
computeTargetFilePathAppend(filePath, ctx, tr) ==
    LET r1 == IF ~ctx.replicateFolders THEN basename(filePath) ELSE filePath
    IN  join(ctx.targetBase, r1 \o (IF tr.forceExtension # <<>> THEN tr.forceExtension
                                    ELSE <<>>))

\* lines 266-278 of main.ts
computeTargetFilePath(filePath, ctx, tr) ==
    LET r1 == IF ~ctx.replicateFolders THEN basename(filePath) ELSE filePath
        r2 == IF tr.forceExtension # <<>>
              THEN StripLastExt(r1) \o tr.forceExtension ELSE r1
    IN  join(ctx.targetBase, r2)

(***************************************************************************)
(* The vault, the target tree and the plugin settings.                     *)
(***************************************************************************)
\* logical (vault-relative) paths of the documents: "a.m" and "d/a.m"
DocA  == <<"a", ".", "m">>
DocDA == <<"d", "/", "a", ".", "m">>
Docs  == {DocA, DocDA}

\* content of the documents when the plugin is loaded
InitialVault ==
    [d \in Docs |->
        IF d = DocA THEN <<"x">>
        ELSE <<"-", "-", "-", NL, "k", NL, "-", "-", "-", NL, "y">>]

\* resolveTargetBase(): the absolute target directory "/t"
TargetBase == <<"/", "t">>

\* files that may already be in the target tree when the plugin is loaded:
\* "/t/a.m", "/t/a-1.m", "/t/a-2.m" and "/t/a.t"
PreExisting ==
    { join(TargetBase, <<"a", ".", "m">>),
      join(TargetBase, <<"a", "-", "1", ".", "m">>),
      join(TargetBase, <<"a", "-", "2", ".", "m">>),
      join(TargetBase, <<"a", ".", "t">>) }

\* content of a pre-existing file: "o" followed by its name, so that
\* pre-existing files differ from each other and from the documents
OldContent(p) == <<"o">> \o basename(p)

\* values of the forceExtension setting: "" and ".t"
ForceExtensions == { <<>>, <<".", "t">> }

\* values of the timestampFormat setting: the one of DEFAULT_SETTINGS
TimestampFormats == { DefaultTimestampFormat }

\* PushPluginSettings (the fields that reach the push core)
SettingsSpace ==
    [ replicateFolders    : BOOLEAN,
      overwriteExisting   : BOOLEAN,
      sanitizeFrontmatter : BOOLEAN,
      addTimestampHeader  : BOOLEAN,
      timestampFormat     : TimestampFormats,
      forceExtension      : ForceExtensions ]

\* OS error codes of a failing I/O call; "none" is an error without a code
Codes == {"EACCES", "EPERM", "ENOENT", "EIO", "none"}

Tasks == {1, 2}

VARIABLES
    settings,   \* this.settings of the plugin
    vault,      \* content of each document of the vault
    fs,         \* regular files of the target tree: path |-> content
    dirs,       \* directories of the target tree
    now,        \* wall clock, in seconds
    tk,         \* the commands in flight: per task, its position and locals
    pushed,     \* history: the pushes that returned, in order
    conc,       \* how many commands may be in flight at once
    cmdsLeft,   \* commands that may still be started
    faultsLeft, \* I/O faults that may still be injected
    ticksLeft   \* times the clock may still be seen to have advanced

vars == <<settings, vault, fs, dirs, now, tk, pushed, conc, cmdsLeft, faultsLeft, ticksLeft>>

\* buildPushContext() and buildTransformOptions()
buildPushContext ==
    [ replicateFolders  |-> settings.replicateFolders,
      overwriteExisting |-> settings.overwriteExisting,
      targetBase        |-> TargetBase ]

buildTransformOptions ==
    [ sanitizeFrontmatter |-> settings.sanitizeFrontmatter,
      addTimestampHeader  |-> settings.addTimestampHeader,
      timestampFormat     |-> settings.timestampFormat,
      forceExtension      |-> settings.forceExtension ]

\* fs.existsSync(p)
existsSync(files, p) == p \in DOMAIN files \/ p \in dirs

\* the target tree with file p holding content c
WithFile(files, p, c) ==
    [q \in DOMAIN files \cup {p} |-> IF q = p THEN c ELSE files[q]]

\* the target tree without file p
WithoutFile(files, p) == [q \in DOMAIN files \ {p} |-> files[q]]

\* a directory and all its ancestors (mkdir with recursive: true)
Ancestors(d) ==
    { SubSeq(d, 1, k) : k \in {n \in 1..Len(d) : n = Len(d) \/ d[n + 1] = "/"} }
        \cup { <<"/">> }

NoErr    == [cls |-> "none", message |-> <<>>, code |-> "none"]
NoNotice == [text |-> "none"]
NoPrior  == [exists |-> FALSE, content |-> <<>>]

IdleTask ==
    [ kind        |-> "none",
      pc          |-> "idle",
      files       |-> <<>>,
      i           |-> 0,
      content     |-> <<>>,
      transformed |-> FALSE,
      destPath    |-> <<>>,
      finalPath   |-> <<>>,
      tmp         |-> <<>>,
      written     |-> 0,
      prior       |-> NoPrior,
      fresh       |-> FALSE,
      before      |-> <<>>,
      err         |-> NoErr,
      thrown      |-> NoErr,
      successes   |-> <<>>,
      failures    |-> <<>>,
      src         |-> <<>>,
      fallback    |-> FALSE,
      pulledText  |-> <<>>,
      pulled      |-> 0,
      applied     |-> 0,
      notice      |-> NoNotice ]

InitFs(S) == [p \in S |-> OldContent(p)]

\* the transform settings of DEFAULT_SETTINGS (main.ts, lines 50-52)
DefaultTransform(st) ==
    /\ ~st.sanitizeFrontmatter
    /\ ~st.addTimestampHeader
    /\ st.timestampFormat = DefaultTimestampFormat

\* The plugin is loaded with any saved settings and any of the pre-existing
\* files.  I/O faults are injected in the behaviours that start from the
\* default transform settings, and the clock is seen to advance in the others.
Init ==
    /\ settings \in SettingsSpace
    /\ \/ faultsLeft = 0 /\ ticksLeft = MaxTicks
       \/ faultsLeft \in 1..MaxFaults /\ ticksLeft = 0 /\ DefaultTransform(settings)
    /\ vault = InitialVault
    /\ \E S \in SUBSET PreExisting : fs = InitFs(S)
    /\ dirs = Ancestors(TargetBase)
    /\ now = 0
    /\ tk = [t \in Tasks |-> IdleTask]
    /\ pushed = <<>>
    /\ conc = 1
    /\ cmdsLeft = MaxCmds

(***************************************************************************)
(* Errors, results and the caller's side of pushSingleFile.                *)
(***************************************************************************)
\* an error rejected by an I/O call (fs.promises.*, vault.read, vault.modify)
OsError(code, op, path) ==
    [cls |-> "Error", message |-> <<code, op, path>>, code |-> code]

\* bug variant of Classify: EPERM is not taken for a permission error
ClassifyNoEperm(code) ==
    IF code = "EACCES" THEN "Permission denied writing destination"
    ELSE IF code = "ENOENT" THEN "Destination path not found"
    ELSE "Failed to write file"

\* lines 131-134: the message of the classified error
Classify(code) ==
    IF code = "EACCES" \/ code = "EPERM" THEN "Permission denied writing destination"
    ELSE IF code = "ENOENT" THEN "Destination path not found"
    ELSE "Failed to write file"

\* lines 127-135: new PushError(`${msg}: ${finalPath}`, code)
PushError(err, finalPath) ==
    [cls |-> "PushError", message |-> <<Classify(err.code), finalPath>>, code |-> err.code]

\* lines 164-173: the PushFailure pushMultiple records for a caught error
PushFailure(file, err) ==
    [ file  |-> file,
      error |-> IF err.cls = "PushError" \/ err.cls = "Error" THEN err.message
                ELSE <<"Unknown error">>,
      code  |-> IF err.cls = "PushError" THEN err.code ELSE "none" ]

\* lines 137-142: the PushResult of a successful push
PushResult(r) ==
    [ source      |-> r.files[r.i],
      finalPath   |-> r.finalPath,
      bytes       |-> Len(r.content),
      transformed |-> r.transformed ]

\* the locals of the finished pushSingleFile / pullFile call are dropped
Clean(r) ==
    [r EXCEPT !.content = <<>>, !.transformed = FALSE, !.destPath = <<>>,
              !.finalPath = <<>>, !.tmp = <<>>, !.written = 0,
              !.prior = NoPrior, !.fresh = FALSE, !.before = <<>>,
              !.err = NoErr, !.src = <<>>,
              !.fallback = FALSE, !.pulledText = <<>>]

\* bug variant of NextPush: the loop is left after its first round
NextPushBreak(r) ==
    [r EXCEPT !.pc = "done",
              !.notice = [text |-> "Pushed",
                          arg  |-> <<Len(r.successes), Len(r.files)>>]]

\* the for loop of pushMultiple moves on: next document, or return to
\* pushFiles and the command's Notice
NextPush(r) ==
    IF r.i < Len(r.files)
    THEN [r EXCEPT !.i = r.i + 1, !.pc = "read"]
    ELSE [r EXCEPT !.pc = "done",
                   !.notice = [text |-> "Pushed",
                               arg  |-> <<Len(r.successes), Len(r.files)>>]]

\* bug variant of AfterReturn: the result is put in front of successes
AfterReturnUnshift(r) ==
    IF r.kind = "push"
    THEN [Clean(r) EXCEPT !.pc = "done",
                          !.notice = [text |-> "Note pushed", arg |-> r.finalPath]]
    ELSE NextPush([Clean(r) EXCEPT !.successes = <<PushResult(r)>> \o @])

\* pushSingleFile returns: pushFile shows the success notice (notifyOnSuccess
\* as in DEFAULT_SETTINGS), pushMultiple appends to successes
AfterReturn(r) ==
    IF r.kind = "push"
    THEN [Clean(r) EXCEPT !.pc = "done",
                          !.notice = [text |-> "Note pushed", arg |-> r.finalPath]]
    ELSE NextPush([Clean(r) EXCEPT !.successes = Append(@, PushResult(r))])

\* bug variant of AfterThrow: pushMultiple has no try / catch, the error
\* leaves it and ends the command
AfterThrowPropagate(r, e) ==
    [Clean(r) EXCEPT !.pc = "done", !.thrown = e,
                     !.notice = [text |-> "error", arg |-> e.message]]

\* pushSingleFile throws e: pushFile hands it to handlePushError,
\* pushMultiple appends to failures
AfterThrow(r, e) ==
    IF r.kind = "push"
    THEN [Clean(r) EXCEPT !.pc = "done", !.thrown = e,
                          !.notice = [text |-> "error", arg |-> e.message]]
    ELSE NextPush([Clean(r) EXCEPT !.thrown = e,
                                   !.failures = Append(@, PushFailure(r.files[r.i], e))])

\* bug variant of EnterCatch: the temp file is not cleaned up
EnterCatchNoUnlink(r, e) ==
    [r EXCEPT !.pc = "catch", !.err = e]

\* bug variant of EnterCatch: the cleanup is aimed at the final path
EnterCatchUnlinkFinal(r, e) ==
    [r EXCEPT !.pc = IF existsSync(fs, r.finalPath) THEN "unlink" ELSE "catch",
              !.err = e, !.tmp = r.finalPath]

\* lines 119-122: writeFile or rename rejected with e; the catch block
\* unlinks the temp file when there is one
EnterCatch(r, e) ==
    [r EXCEPT !.pc = IF existsSync(fs, r.tmp) THEN "unlink" ELSE "catch", !.err = e]

\* bug variant of CollisionIndex: the first candidate is taken untested
CollisionIndexNoLoop(files, b, ext, i) == i

\* lines 109-113: the first free suffix index, tested from i upwards
RECURSIVE CollisionIndex(_, _, _, _)
CollisionIndex(files, b, ext, i) ==
    IF existsSync(files, b \o <<"-">> \o NumStr(i) \o ext)
    THEN CollisionIndex(files, b, ext, i + 1)
    ELSE i

\* bug variant of ResolveCollision: the suffix index starts at 0
ResolveCollisionFromZero(files, destPath, overwriteExisting) ==
    IF ~overwriteExisting /\ existsSync(files, destPath)
    THEN LET ext == extname(destPath)
             b   == SubSeq(destPath, 1, Len(destPath) - Len(ext))
         IN  b \o <<"-">> \o NumStr(CollisionIndex(files, b, ext, 0)) \o ext
    ELSE destPath

\* bug variant of ResolveCollision: overwriteExisting is not looked at
ResolveCollisionAlways(files, destPath, overwriteExisting) ==
    IF existsSync(files, destPath)
    THEN LET ext == extname(destPath)
             b   == SubSeq(destPath, 1, Len(destPath) - Len(ext))
         IN  b \o <<"-">> \o NumStr(CollisionIndex(files, b, ext, 1)) \o ext
    ELSE destPath

\* lines 106-114: the path the push writes to
ResolveCollision(files, destPath, overwriteExisting) ==
    IF ~overwriteExisting /\ existsSync(files, destPath)
    THEN LET ext == extname(destPath)
             b   == SubSeq(destPath, 1, Len(destPath) - Len(ext))
         IN  b \o <<"-">> \o NumStr(CollisionIndex(files, b, ext, 1)) \o ext
    ELSE destPath

\* bug variant of TmpPath: the content is written in place
TmpPathInPlace(finalPath) == finalPath

\* line 115: the temp path of a final path
TmpPath(finalPath) == finalPath \o <<".", "t", "m", "p">>

\* the names the collision loop of a destination can test: base-<i><ext>
IsNumbered(p, destPath) ==
    LET ext == extname(destPath)
        b   == SubSeq(destPath, 1, Len(destPath) - Len(ext)) \o <<"-">>
        mid == SubSeq(p, Len(b) + 1, Len(p) - Len(ext))
    IN  /\ Len(p) > Len(b) + Len(ext)
        /\ MatchAt(p, 1, b)
        /\ MatchAt(p, Len(p) - Len(ext) + 1, ext)
        /\ \A k \in 1..Len(mid) : \E n \in 0..9 : mid[k] = Digit(n)
        /\ mid[1] # "0"

\* neither the destination nor any numbered sibling of it exists
FreshDest(files, destPath) ==
    \A p \in DOMAIN files \cup dirs : p # destPath /\ ~IsNumbered(p, destPath)

Busy(t) == tk[t].pc \notin {"idle", "done"}

\* a command may start in the first free task slot
CanStart(t) ==
    /\ cmdsLeft > 0
    /\ ~Busy(t)
    /\ \A u \in Tasks : u < t => Busy(u)
    /\ Cardinality({u \in Tasks : Busy(u)}) < conc

\* the ordered selections a batch command may be given
Batches == UNION { [1..n -> Docs] : n \in 1..MaxBatch }

(***************************************************************************)
(* Push commands.                                                          *)
(***************************************************************************)
\* push-current-note -> pushFile(file) -> pushSingleFile: vault.read starts
StartPush(t, f) ==
    /\ CanStart(t)
    /\ tk' = [tk EXCEPT ![t] = [IdleTask EXCEPT !.kind = "push", !.files = <<f>>,
                                                !.i = 1, !.pc = "read"]]
    /\ cmdsLeft' = cmdsLeft - 1
    /\ UNCHANGED <<settings, vault, fs, dirs, now, pushed, conc, faultsLeft, ticksLeft>>

\* push-selected-files / push-modified-today -> pushFiles -> pushMultiple
StartPushBatch(t, fl) ==
    /\ CanStart(t)
    /\ tk' = [tk EXCEPT ![t] = [IdleTask EXCEPT !.kind = "pushBatch", !.files = fl,
                                                !.i = 1, !.pc = "read"]]
    /\ cmdsLeft' = cmdsLeft - 1
    /\ UNCHANGED <<settings, vault, fs, dirs, now, pushed, conc, faultsLeft, ticksLeft>>

\* lines 91-105: vault.read resolves; transform (new Date() is d seconds
\* after the last time the clock was read), destination, mkdir starts; the
\* push has not touched the target tree yet, `before' keeps its files
ReadOk(t, d) ==
    /\ tk[t].pc = "read"
    /\ d = 0 \/ ticksLeft > 0
    /\ now' = now + d
    /\ ticksLeft' = IF d = 0 THEN ticksLeft ELSE ticksLeft - 1
    /\ LET f  == tk[t].files[tk[t].i]
           tc == transformContent(vault[f], buildTransformOptions, now')
       IN  tk' = [tk EXCEPT ![t].content = tc.content,
                            ![t].transformed = tc.transformed,
                            ![t].destPath =
                                pushDestPath(f, buildPushContext, buildTransformOptions),
                            ![t].before = fs,
                            ![t].pc = "mkdir"]
    /\ UNCHANGED <<settings, vault, fs, dirs, pushed, conc, cmdsLeft, faultsLeft>>

\* line 91: vault.read rejects
ReadFail(t, c) ==
    /\ tk[t].pc = "read"
    /\ faultsLeft > 0
    /\ tk' = [tk EXCEPT ![t] = AfterThrow(tk[t], OsError(c, "read", tk[t].files[tk[t].i]))]
    /\ faultsLeft' = faultsLeft - 1
    /\ UNCHANGED <<settings, vault, fs, dirs, now, pushed, conc, cmdsLeft, ticksLeft>>

\* lines 105-117: mkdir resolves; collision handling; writeFile(tmp) starts
MkdirOk(t) ==
    /\ tk[t].pc = "mkdir"
    /\ dirs' = dirs \cup Ancestors(dirname(tk[t].destPath))
    /\ LET fp == ResolveCollision(fs, tk[t].destPath, buildPushContext.overwriteExisting)
       IN  tk' = [tk EXCEPT ![t].finalPath = fp,
                            ![t].tmp = TmpPath(fp),
                            ![t].fresh = FreshDest(fs, tk[t].destPath),
                            ![t].prior = IF fp \in DOMAIN fs
                                         THEN [exists |-> TRUE, content |-> fs[fp]]
                                         ELSE NoPrior,
                            ![t].written = 0,
                            ![t].pc = "write"]
    /\ UNCHANGED <<settings, vault, fs, now, pushed, conc, cmdsLeft, faultsLeft, ticksLeft>>

\* line 105: mkdir rejects
MkdirFail(t, c) ==
    /\ tk[t].pc = "mkdir"
    /\ faultsLeft > 0
    /\ tk' = [tk EXCEPT ![t] = AfterThrow(tk[t], OsError(c, "mkdir", dirname(tk[t].destPath)))]
    /\ faultsLeft' = faultsLeft - 1
    /\ UNCHANGED <<settings, vault, fs, dirs, now, pushed, conc, cmdsLeft, ticksLeft>>

\* line 117: writeFile opens the temp file (created, or truncated); with
\* nothing to write it resolves and rename starts
WriteOpen(t) ==
    /\ tk[t].pc = "write"
    /\ fs' = WithFile(fs, tk[t].tmp, <<>>)
    /\ tk' = [tk EXCEPT ![t].pc = IF Len(tk[t].content) = 0 THEN "rename" ELSE "writing",
                        ![t].written = 0]
    /\ UNCHANGED <<settings, vault, dirs, now, pushed, conc, cmdsLeft, faultsLeft, ticksLeft>>

\* line 117: writeFile cannot open the temp file
WriteOpenFail(t, c) ==
    /\ tk[t].pc = "write"
    /\ faultsLeft > 0
    /\ tk' = [tk EXCEPT ![t] = EnterCatch(tk[t], OsError(c, "open", tk[t].tmp))]
    /\ faultsLeft' = faultsLeft - 1
    /\ UNCHANGED <<settings, vault, fs, dirs, now, pushed, conc, cmdsLeft, ticksLeft>>

\* lines 117-118: writeFile writes the content up to character n; with all
\* of it written it resolves and rename starts
WriteChunk(t, n) ==
    /\ tk[t].pc = "writing"
    /\ n > tk[t].written
    /\ n <= Len(tk[t].content)
    /\ n <= MaxPartial \/ n = Len(tk[t].content)
    /\ fs' = WithFile(fs, tk[t].tmp, SubSeq(tk[t].content, 1, n))
    /\ tk' = [tk EXCEPT ![t].written = n,
                        ![t].pc = IF n = Len(tk[t].content) THEN "rename" ELSE "writing"]
    /\ UNCHANGED <<settings, vault, dirs, now, pushed, conc, cmdsLeft, faultsLeft, ticksLeft>>

\* line 117: writeFile rejects after the temp file was opened
WriteFail(t, c) ==
    /\ tk[t].pc = "writing"
    /\ faultsLeft > 0
    /\ tk' = [tk EXCEPT ![t] = EnterCatch(tk[t], OsError(c, "write", tk[t].tmp))]
    /\ faultsLeft' = faultsLeft - 1
    /\ UNCHANGED <<settings, vault, fs, dirs, now, pushed, conc, cmdsLeft, ticksLeft>>

\* lines 118, 137-142: rename resolves; the push returns its PushResult
RenameOk(t) ==
    /\ tk[t].pc = "rename"
    /\ tk[t].tmp \in DOMAIN fs
    /\ fs' = WithFile(WithoutFile(fs, tk[t].tmp), tk[t].finalPath, fs[tk[t].tmp])
    /\ pushed' = Append(pushed, [ source    |-> tk[t].files[tk[t].i],
                                  finalPath |-> tk[t].finalPath,
                                  content   |-> tk[t].content,
                                  fresh     |-> tk[t].fresh ])
    /\ tk' = [tk EXCEPT ![t] = AfterReturn(tk[t])]
    /\ UNCHANGED <<settings, vault, dirs, now, conc, cmdsLeft, faultsLeft, ticksLeft>>

\* line 118: rename rejects
RenameFail(t, c) ==
    /\ tk[t].pc = "rename"
    /\ faultsLeft > 0
    /\ tk' = [tk EXCEPT ![t] = EnterCatch(tk[t], OsError(c, "rename", tk[t].tmp))]
    /\ faultsLeft' = faultsLeft - 1
    /\ UNCHANGED <<settings, vault, fs, dirs, now, pushed, conc, cmdsLeft, ticksLeft>>

\* lines 120, 127-135: no temp file to unlink; the classified error is thrown
CatchThrow(t) ==
    /\ tk[t].pc = "catch"
    /\ tk' = [tk EXCEPT ![t] = AfterThrow(tk[t], PushError(tk[t].err, tk[t].finalPath))]
    /\ UNCHANGED <<settings, vault, fs, dirs, now, pushed, conc, cmdsLeft, faultsLeft, ticksLeft>>

\* lines 122, 127-135: unlink resolves; the classified error is thrown
UnlinkOk(t) ==
    /\ tk[t].pc = "unlink"
    /\ fs' = WithoutFile(fs, tk[t].tmp)
    /\ tk' = [tk EXCEPT ![t] = AfterThrow(tk[t], PushError(tk[t].err, tk[t].finalPath))]
    /\ UNCHANGED <<settings, vault, dirs, now, pushed, conc, cmdsLeft, faultsLeft, ticksLeft>>

\* lines 123-135: unlink rejects, which is ignored; the classified error is
\* thrown
UnlinkFail(t) ==
    /\ tk[t].pc = "unlink"
    /\ tk' = [tk EXCEPT ![t] = AfterThrow(tk[t], PushError(tk[t].err, tk[t].finalPath))]
    /\ UNCHANGED <<settings, vault, fs, dirs, now, pushed, conc, cmdsLeft, faultsLeft, ticksLeft>>

(***************************************************************************)
(* Pull commands (main.ts).                                                *)
(***************************************************************************)
\* lines 291-296 of pullFile: the path with the original extension
originalPath(filePath, ctx) ==
    join(ctx.targetBase, IF ctx.replicateFolders THEN filePath ELSE basename(filePath))

\* bug variant of PullSource: the path with the original extension is
\* probed first
PullSourceOriginalFirst(files, filePath, ctx, tr) ==
    LET targetPath == computeTargetFilePath(filePath, ctx, tr)
    IN  IF tr.forceExtension # <<>> /\ existsSync(files, originalPath(filePath, ctx))
        THEN originalPath(filePath, ctx)
        ELSE IF existsSync(files, targetPath) THEN targetPath ELSE <<>>

\* lines 287-308 of pullFile: the external file to read, <<>> when the
\* target is not found
PullSource(files, filePath, ctx, tr) ==
    LET targetPath == computeTargetFilePath(filePath, ctx, tr)
    IN  IF existsSync(files, targetPath) THEN targetPath
        ELSE IF tr.forceExtension # <<>> /\ existsSync(files, originalPath(filePath, ctx))
             THEN originalPath(filePath, ctx)
             ELSE <<>>

\* pullFile is called for document i of the task: up to its first await
\* (readFile), or, when the target is not found, through its return and on
\* to the caller
RECURSIVE PullFrom(_, _)
PullFrom(r, files) ==
    LET f   == r.files[r.i]
        src == PullSource(files, f, buildPushContext, buildTransformOptions)
        nf  == [text |-> "Target file not found for pull", arg |-> f]
    IN  IF src # <<>>
        THEN [r EXCEPT !.pc = "pullread", !.src = src,
                       !.fallback =
                           (src # computeTargetFilePath(f, buildPushContext,
                                                        buildTransformOptions))]
        ELSE IF r.kind = "pull"
             THEN [r EXCEPT !.pc = "done", !.notice = nf]
             ELSE IF r.i < Len(r.files)
                  THEN PullFrom([r EXCEPT !.pulled = r.pulled + 1, !.i = r.i + 1], files)
                  ELSE [r EXCEPT !.pulled = r.pulled + 1, !.pc = "done",
                                 !.notice = [text |-> "Pulled",
                                             arg  |-> <<r.pulled + 1, Len(r.files)>>]]

\* pullFile returns (it catches its own errors) with notice n: the
\* pull-current-note command is done, the loop of pull-selected-files counts
\* the document and moves on
AfterPull(r, n, files) ==
    IF r.kind = "pull"
    THEN [Clean(r) EXCEPT !.pc = "done", !.notice = n]
    ELSE IF r.i < Len(r.files)
         THEN PullFrom([Clean(r) EXCEPT !.pulled = r.pulled + 1, !.i = r.i + 1], files)
         ELSE [Clean(r) EXCEPT !.pulled = r.pulled + 1, !.pc = "done",
                               !.notice = [text |-> "Pulled",
                                           arg  |-> <<r.pulled + 1, Len(r.files)>>]]

\* pull-current-note -> pullFile(file)
StartPull(t, f) ==
    /\ CanStart(t)
    /\ tk' = [tk EXCEPT ![t] =
                PullFrom([IdleTask EXCEPT !.kind = "pull", !.files = <<f>>, !.i = 1], fs)]
    /\ cmdsLeft' = cmdsLeft - 1
    /\ UNCHANGED <<settings, vault, fs, dirs, now, pushed, conc, faultsLeft, ticksLeft>>

\* pull-selected-files: pullFile for each selected document in turn
StartPullBatch(t, fl) ==
    /\ CanStart(t)
    /\ tk' = [tk EXCEPT ![t] =
                PullFrom([IdleTask EXCEPT !.kind = "pullBatch", !.files = fl, !.i = 1], fs)]
    /\ cmdsLeft' = cmdsLeft - 1
    /\ UNCHANGED <<settings, vault, fs, dirs, now, pushed, conc, faultsLeft, ticksLeft>>

\* lines 300, 309: readFile resolves; vault.modify starts
PullReadOk(t) ==
    /\ tk[t].pc = "pullread"
    /\ tk[t].src \in DOMAIN fs
    /\ tk' = [tk EXCEPT ![t].pulledText = fs[tk[t].src], ![t].pc = "modify"]
    /\ UNCHANGED <<settings, vault, fs, dirs, now, pushed, conc, cmdsLeft, faultsLeft, ticksLeft>>

\* lines 300, 309, 312-314: readFile rejects; handlePullError
PullReadFail(t, c) ==
    /\ tk[t].pc = "pullread"
    /\ faultsLeft > 0
    /\ tk' = [tk EXCEPT ![t] =
                AfterPull(tk[t], [text |-> "error",
                                  arg  |-> OsError(c, "read", tk[t].src).message], fs)]
    /\ faultsLeft' = faultsLeft - 1
    /\ UNCHANGED <<settings, vault, fs, dirs, now, pushed, conc, cmdsLeft, ticksLeft>>

\* lines 298-303, 310-311, 317-319: vault.modify resolves; the document holds
\* the pulled content
ModifyOk(t) ==
    /\ tk[t].pc = "modify"
    /\ vault' = [vault EXCEPT ![tk[t].files[tk[t].i]] = tk[t].pulledText]
    /\ tk' = [tk EXCEPT ![t] =
                AfterPull([tk[t] EXCEPT !.applied = tk[t].applied + 1],
                          [text |-> IF tk[t].fallback THEN "Pulled (fallback extension)"
                                    ELSE "Note pulled",
                           arg  |-> tk[t].src], fs)]
    /\ UNCHANGED <<settings, fs, dirs, now, pushed, conc, cmdsLeft, faultsLeft, ticksLeft>>

\* lines 312-314, 317-319: vault.modify rejects; handlePullError
ModifyFail(t, c) ==
    /\ tk[t].pc = "modify"
    /\ faultsLeft > 0
    /\ tk' = [tk EXCEPT ![t] =
                AfterPull(tk[t], [text |-> "error",
                                  arg  |-> OsError(c, "modify", tk[t].files[tk[t].i]).message],
                          fs)]
    /\ faultsLeft' = faultsLeft - 1
    /\ UNCHANGED <<settings, vault, fs, dirs, now, pushed, conc, cmdsLeft, ticksLeft>>

\* seconds the clock may be seen to have advanced between two readings
ClockSteps == {0, 60}

PushStep(t) ==
    \/ \E f \in Docs : StartPush(t, f)
    \/ \E fl \in Batches : StartPushBatch(t, fl)
    \/ \E d \in ClockSteps : ReadOk(t, d)
    \/ \E c \in Codes : ReadFail(t, c)
    \/ MkdirOk(t)
    \/ \E c \in Codes : MkdirFail(t, c)
    \/ WriteOpen(t)
    \/ \E c \in Codes : WriteOpenFail(t, c)
    \/ \E n \in 1..Len(tk[t].content) : WriteChunk(t, n)
    \/ \E c \in Codes : WriteFail(t, c)
    \/ RenameOk(t)
    \/ \E c \in Codes : RenameFail(t, c)
    \/ CatchThrow(t)
    \/ UnlinkOk(t)
    \/ UnlinkFail(t)

PullStep(t) ==
    \/ \E f \in Docs : StartPull(t, f)
    \/ \E fl \in Batches : StartPullBatch(t, fl)
    \/ PullReadOk(t)
    \/ \E c \in Codes : PullReadFail(t, c)
    \/ ModifyOk(t)
    \/ \E c \in Codes : ModifyFail(t, c)

Next ==
    \/ \E t \in Tasks : PushStep(t)
    \/ \E t \in Tasks : PullStep(t)

Spec == Init /\ [][Next]_vars

(***************************************************************************)
(* A batch push on its own, flattening and with overwriteExisting off (the *)
(* two documents share their destination), for the progress of             *)
(* pushMultiple.  Every I/O call that is awaited settles, by resolving  *)
(* or by rejecting, and the event loop then runs the continuation: a step  *)
(* that can be taken is eventually taken.                                  *)
(***************************************************************************)
LiveInit ==
    /\ settings \in SettingsSpace
    /\ DefaultTransform(settings)
    /\ ~settings.overwriteExisting
    /\ ~settings.replicateFolders
    /\ settings.forceExtension = <<>>
    /\ faultsLeft \in 0..MaxFaults
    /\ ticksLeft = 0
    /\ vault = InitialVault
    /\ \E S \in SUBSET PreExisting : fs = InitFs(S)
    /\ dirs = Ancestors(TargetBase)
    /\ now = 0
    /\ tk = [t \in Tasks |-> IdleTask]
    /\ pushed = <<>>
    /\ conc = 1
    /\ cmdsLeft = MaxCmds

\* the code of a failure has no bearing on the progress of the batch
LiveCodes == {"EIO"}

LiveNext ==
    \E t \in Tasks :
        \/ \E fl \in Batches : StartPushBatch(t, fl)
        \/ \E d \in ClockSteps : ReadOk(t, d)
        \/ \E c \in LiveCodes : ReadFail(t, c)
        \/ MkdirOk(t)
        \/ \E c \in LiveCodes : MkdirFail(t, c)
        \/ WriteOpen(t)
        \/ \E c \in LiveCodes : WriteOpenFail(t, c)
        \/ \E n \in 1..Len(tk[t].content) : WriteChunk(t, n)
        \/ \E c \in LiveCodes : WriteFail(t, c)
        \/ RenameOk(t)
        \/ \E c \in LiveCodes : RenameFail(t, c)
        \/ CatchThrow(t)
        \/ UnlinkOk(t)
        \/ UnlinkFail(t)

LiveSpec == LiveInit /\ [][LiveNext]_vars /\ WF_vars(LiveNext)

(***************************************************************************)
(* A push followed by a pull: two single-document commands, one after the  *)
(* other, without I/O faults.                                              *)
(***************************************************************************)
PushPullInit ==
    /\ settings \in SettingsSpace
    /\ vault = InitialVault
    /\ \E S \in SUBSET PreExisting : fs = InitFs(S)
    /\ dirs = Ancestors(TargetBase)
    /\ now = 0
    /\ tk = [t \in Tasks |-> IdleTask]
    /\ pushed = <<>>
    /\ conc = 1
    /\ cmdsLeft = MaxCmds + 1
    /\ faultsLeft = 0
    /\ ticksLeft = 0

PushPullNext ==
    \E t \in Tasks :
        \/ \E f \in Docs : StartPush(t, f)
        \/ \E d \in ClockSteps : ReadOk(t, d)
        \/ MkdirOk(t)
        \/ WriteOpen(t)
        \/ \E n \in 1..Len(tk[t].content) : WriteChunk(t, n)
        \/ RenameOk(t)
        \/ \E f \in Docs : StartPull(t, f)
        \/ PullReadOk(t)
        \/ ModifyOk(t)

PushPullSpec == PushPullInit /\ [][PushPullNext]_vars

(***************************************************************************)
(* Two push-current-note commands in flight at once: the command is fired  *)
(* again while the push it started is suspended at an await.  No I/O       *)
(* faults are injected; writeFile writes the content with one write, at the *)
(* start of the file its descriptor is open on.                            *)
(***************************************************************************)
\* where the file that writeFile of task t opened is now: at the temp path,
\* or at the final path once the other push has renamed it there
OpenedFile(t) == IF tk[t].tmp \in DOMAIN fs THEN tk[t].tmp ELSE tk[t].finalPath

\* line 117: writeFile writes the content over what the file holds (the
\* other push may have written to the same file) and resolves; rename starts
WriteOver(t) ==
    /\ tk[t].pc = "writing"
    /\ OpenedFile(t) \in DOMAIN fs
    /\ LET old == fs[OpenedFile(t)]
           c   == tk[t].content
       IN  fs' = WithFile(fs, OpenedFile(t), c \o SubSeq(old, Len(c) + 1, Len(old)))
    /\ tk' = [tk EXCEPT ![t].written = Len(tk[t].content), ![t].pc = "rename"]
    /\ UNCHANGED <<settings, vault, dirs, now, pushed, conc, cmdsLeft, faultsLeft, ticksLeft>>

\* line 118: rename rejects with ENOENT, the temp file is no longer there
\* (the other push has renamed it)
RenameMissing(t) ==
    /\ tk[t].pc = "rename"
    /\ tk[t].tmp \notin DOMAIN fs
    /\ tk' = [tk EXCEPT ![t] = EnterCatch(tk[t], OsError("ENOENT", "rename", tk[t].tmp))]
    /\ UNCHANGED <<settings, vault, fs, dirs, now, pushed, conc, cmdsLeft, faultsLeft, ticksLeft>>

ConcInit ==
    /\ settings \in SettingsSpace
    /\ vault = InitialVault
    /\ \E S \in SUBSET PreExisting : fs = InitFs(S)
    /\ dirs = Ancestors(TargetBase)
    /\ now = 0
    /\ tk = [t \in Tasks |-> IdleTask]
    /\ pushed = <<>>
    /\ conc = Cardinality(Tasks)
    /\ cmdsLeft = MaxCmds + 1
    /\ faultsLeft = 0
    /\ ticksLeft = 0

ConcNext ==
    \E t \in Tasks :
        \/ \E f \in Docs : StartPush(t, f)
        \/ \E d \in ClockSteps : ReadOk(t, d)
        \/ MkdirOk(t)
        \/ WriteOpen(t)
        \/ WriteOver(t)
        \/ RenameOk(t)
        \/ RenameMissing(t)
        \/ CatchThrow(t)

ConcSpec == ConcInit /\ [][ConcNext]_vars

(***************************************************************************)
(* The pure functions on their own: transformContent and the destination   *)
(* path of pushSingleFile, applied by a push-current-note command to a     *)
(* vault of one document whose content, or whose logical path, is drawn    *)
(* from all short strings.                                                 *)
(***************************************************************************)
\* the characters of the raw contents: what FRONTMATTER_RE looks at, and
\* another character
RawAlphabet == {"-", NL, "k"}

RawInputs == UNION { [1..n -> RawAlphabet] : n \in 0..MaxRaw }

\* the raw contents the timestamp header is added to: those of InitialVault
StampedRaws == { InitialVault[d] : d \in Docs }

\* the characters of the logical paths: what path.basename and the
\* extension regex look at, and another character
PathAlphabet == {"a", ".", "/"}

\* s cut at every sep
RECURSIVE Split(_, _)
Split(s, sep) ==
    LET at == Positions(s, sep)
    IN  IF at = {} THEN <<s>>
        ELSE <<SubSeq(s, 1, Min(at) - 1)>> \o Split(From(s, Min(at) + 1), sep)

\* TFile.path: segments separated by "/", none of them empty; the vault
\* holds no file or folder whose name starts with a dot
ValidPath(p) ==
    \A k \in 1..Len(Split(p, "/")) :
        LET seg == Split(p, "/")[k] IN seg # <<>> /\ seg[1] # "."

PathInputs ==
    { p \in UNION { [1..n -> PathAlphabet] : n \in 1..MaxPath } : ValidPath(p) }

\* either the raw content varies, under the path settings of
\* DEFAULT_SETTINGS (every short string without the timestamp header, the
\* contents of InitialVault with it), or the logical path does, under the
\* transform settings of DEFAULT_SETTINGS
PureInit ==
    /\ settings \in SettingsSpace
    /\ settings.overwriteExisting
    /\ \/ /\ settings.replicateFolders /\ settings.forceExtension = <<>>
          /\ \E raw \in RawInputs \cup StampedRaws :
                /\ settings.addTimestampHeader => raw \in StampedRaws
                /\ vault = [d \in {DocA} |-> raw]
       \/ /\ DefaultTransform(settings)
          /\ \E p \in PathInputs : vault = [d \in {p} |-> InitialVault[DocA]]
    /\ fs = InitFs({})
    /\ dirs = Ancestors(TargetBase)
    /\ now = 0
    /\ tk = [t \in Tasks |-> IdleTask]
    /\ pushed = <<>>
    /\ conc = 1
    /\ cmdsLeft = MaxCmds
    /\ faultsLeft = 0
    /\ ticksLeft = MaxTicks

PureNext ==
    \E t \in Tasks :
        \/ \E f \in DOMAIN vault : StartPush(t, f)
        \/ \E d \in ClockSteps : ReadOk(t, d)

PureSpec == PureInit /\ [][PureNext]_vars

(***************************************************************************)
(* Properties.                                                             *)
(***************************************************************************)
\* the documents of files at the positions of S, in order
RECURSIVE Restrict(_, _)
Restrict(files, S) ==
    IF files = <<>> THEN <<>>
    ELSE LET n == Len(files)
             h == Restrict(SubSeq(files, 1, n - 1), S)
         IN  IF n \in S THEN Append(h, files[n]) ELSE h

\* the documents of a batch that pushMultiple is through with
Processed(r) == IF r.pc = "done" THEN Len(r.files) ELSE r.i - 1

EndsDocument(t) ==
    /\ tk[t].kind = "pushBatch"
    /\ Busy(t)
    /\ tk'[t].i # tk[t].i \/ tk'[t].pc = "done"

\* C2: whenever the push of a document of a batch ends, by a return or by an
\* error of any step, pushMultiple records exactly one outcome for it, a
\* failure naming the document's logical path when it failed, and carries on:
\* it starts the push of the next document, or returns its result when there
\* is none; the error never leaves pushMultiple.
C2_BatchNeverRaises ==
    [][\A t \in Tasks :
          EndsDocument(t) =>
              LET r == tk[t]
                  q == tk'[t]
              IN  /\ q.kind = "pushBatch"
                  /\ \/ /\ Len(q.successes) = Len(r.successes) + 1
                        /\ SubSeq(q.successes, 1, Len(r.successes)) = r.successes
                        /\ q.failures = r.failures
                     \/ /\ Len(q.failures) = Len(r.failures) + 1
                        /\ SubSeq(q.failures, 1, Len(r.failures)) = r.failures
                        /\ q.failures[Len(q.failures)].file = r.files[r.i]
                        /\ q.successes = r.successes
                  /\ IF r.i < Len(r.files)
                     THEN q.pc = "read" /\ q.i = r.i + 1 /\ q.files = r.files
                     ELSE q.pc = "done" /\ q.notice.text = "Pushed"]_vars

\* a returned batch whose first document failed and whose second document,
\* another one, was pushed all the same
C2_Witness ==
    \E t \in Tasks :
        /\ tk[t].kind = "pushBatch"
        /\ tk[t].pc = "done"
        /\ Len(tk[t].files) >= 2
        /\ tk[t].files[1] # tk[t].files[2]
        /\ Len(tk[t].failures) = 1
        /\ tk[t].failures[1].file = tk[t].files[1]
        /\ Len(tk[t].successes) >= 1
        /\ tk[t].successes[1].source = tk[t].files[2]
        /\ tk[t].successes[1].finalPath \in DOMAIN fs

\* the positions of a push between the choice of its final path and its end
Writing(t) == tk[t].pc \in {"write", "writing", "rename", "catch", "unlink"}

\* what a reader of path p sees
Observed(files, p) ==
    IF p \in DOMAIN files THEN [exists |-> TRUE, content |-> files[p]] ELSE NoPrior

\* C3: after every step taken while a push is between the choice of its
\* final path and its end, a reader of the final path sees what the path held
\* when it was chosen (that content, or no file) or the complete transformed
\* content.
C3_AtomicVisibility ==
    [][\A t \in Tasks :
          Writing(t) =>
              \/ Observed(fs', tk[t].finalPath) = tk[t].prior
              \/ Observed(fs', tk[t].finalPath)
                    = [exists |-> TRUE, content |-> tk[t].content]]_vars

\* the temp file holds a strict, non-empty prefix of the content while the
\* final path still holds its prior content
C3_Witness ==
    \E t \in Tasks :
        /\ tk[t].pc = "writing"
        /\ tk[t].written > 0
        /\ tk[t].written < Len(tk[t].content)
        /\ tk[t].prior.exists
        /\ fs[tk[t].tmp] = SubSeq(tk[t].content, 1, tk[t].written)
        /\ fs[tk[t].finalPath] = tk[t].prior.content
        /\ tk[t].prior.content # tk[t].content

\* the k-th name of the suffix scheme of a destination: the destination
\* itself for k = 0, base-<k><ext> otherwise
Numbered(destPath, k) ==
    IF k = 0 THEN destPath
    ELSE LET ext == extname(destPath)
         IN  SubSeq(destPath, 1, Len(destPath) - Len(ext))
                \o <<"-">> \o NumStr(k) \o ext

\* the un-suffixed destination of a document under the current settings
DestOf(f) == pushDestPath(f, buildPushContext, buildTransformOptions)

\* entries j..k of the history are pushes of one document
SameSource(j, k) == \A m \in j..k : pushed[m].source = pushed[j].source

\* C4 as stated: with overwriteExisting off, the pushes of one document that
\* returned since the plugin was loaded returned, in order, base+ext,
\* base-1+ext, base-2+ext, ...
C4_Original ==
    (~settings.overwriteExisting /\ pushed # <<>> /\ SameSource(1, Len(pushed))) =>
        \A k \in 1..Len(pushed) :
            pushed[k].finalPath = Numbered(DestOf(pushed[k].source), k - 1)

\* C4 (amended): with overwriteExisting off, consecutive pushes of one
\* document, the first of which found neither its destination nor any
\* numbered sibling of it in the target tree, return pairwise distinct
\* finalPaths that are, in order, base+ext, base-1+ext, base-2+ext, ...
C4_SuffixSequence ==
    ~settings.overwriteExisting =>
        \A j \in 1..Len(pushed) : \A k \in j..Len(pushed) :
            (pushed[j].fresh /\ SameSource(j, k)) =>
                /\ pushed[k].finalPath = Numbered(DestOf(pushed[j].source), k - j)
                /\ \A m \in j..(k - 1) : pushed[m].finalPath # pushed[k].finalPath

\* three consecutive pushes of one document into a tree without its
\* destination or numbered siblings have returned
C4_Witness ==
    /\ ~settings.overwriteExisting
    /\ Len(pushed) = 3
    /\ pushed[1].fresh
    /\ SameSource(1, 3)
    /\ pushed[3].finalPath = Numbered(DestOf(pushed[1].source), 2)

\* C5: with overwriteExisting on, every push that returns returns the
\* un-suffixed destination of its document, which is the finalPath every
\* earlier push of that document returned, and when it returns the file at
\* that path holds exactly the content this push transformed.
C5_OverwriteIdempotent ==
    [][\A t \in Tasks :
          (settings.overwriteExisting /\ tk[t].pc = "rename"
              /\ Len(pushed') = Len(pushed) + 1) =>
              LET e == pushed'[Len(pushed')]
              IN  /\ e.finalPath = DestOf(e.source)
                  /\ e.finalPath \in DOMAIN fs'
                  /\ fs'[e.finalPath] = tk[t].content
                  /\ \A m \in 1..Len(pushed) :
                        pushed[m].source = e.source =>
                            pushed[m].finalPath = e.finalPath]_vars

\* a document was pushed twice over a destination that existed, the two
\* pushes wrote different contents and returned the same finalPath, and the
\* file holds the second content
C5_Witness ==
    /\ settings.overwriteExisting
    /\ Len(pushed) = 2
    /\ ~pushed[1].fresh
    /\ pushed[1].source = pushed[2].source
    /\ pushed[1].finalPath = pushed[2].finalPath
    /\ pushed[1].content # pushed[2].content
    /\ fs[pushed[2].finalPath] = pushed[2].content
    /\ \A t \in Tasks : ~Busy(t)

\* the suffix indices that are free for a destination
FreeIndices(files, destPath) ==
    { i \in 1..(Cardinality(DOMAIN files \cup dirs) + 1) :
        ~existsSync(files, Numbered(destPath, i)) }

\* C6: with overwriteExisting off, the path a push has chosen to write to is
\* its destination when that does not exist, otherwise base-<i><ext> for the
\* lowest i >= 1 whose base-<i><ext> does not exist; the chosen path names no
\* existing file.
C6_LowestFreeSuffix ==
    \A t \in Tasks :
        (tk[t].pc = "write" /\ ~settings.overwriteExisting) =>
            /\ ~existsSync(fs, tk[t].finalPath)
            /\ tk[t].finalPath =
                  IF existsSync(fs, tk[t].destPath)
                  THEN Numbered(tk[t].destPath, Min(FreeIndices(fs, tk[t].destPath)))
                  ELSE tk[t].destPath

\* base+ext and base-2+ext exist, base-1+ext does not: the push chose
\* base-1+ext
C6_Witness ==
    \E t \in Tasks :
        /\ tk[t].pc = "write"
        /\ ~settings.overwriteExisting
        /\ tk[t].destPath \in DOMAIN fs
        /\ Numbered(tk[t].destPath, 2) \in DOMAIN fs
        /\ tk[t].finalPath = Numbered(tk[t].destPath, 1)

\* the kind of write error the claim gives an OS code
ExpectedKind(code) ==
    CASE code \in {"EACCES", "EPERM"} -> "Permission denied writing destination"
      [] code = "ENOENT"              -> "Destination path not found"
      [] OTHER                        -> "Failed to write file"

\* C7: a failure of the temp write or of the rename always leads to the catch
\* block, and the error that leaves it is a PushError whose message is the
\* kind of the underlying OS code (permission denied for EACCES and EPERM,
\* destination not found for ENOENT, write failed for any other or no code)
\* followed by the final path, and whose code is the underlying code.
C7_ClassifiedWriteError ==
    [][\A t \in Tasks :
          /\ (tk[t].pc \in {"write", "writing", "rename"} /\ faultsLeft' < faultsLeft) =>
                /\ tk'[t].pc \in {"catch", "unlink"}
                /\ tk'[t].err.cls = "Error"
                /\ tk'[t].finalPath = tk[t].finalPath
          /\ (tk[t].pc \in {"catch", "unlink"} /\ tk'[t] # tk[t]) =>
                /\ tk'[t].thrown.cls = "PushError"
                /\ tk'[t].thrown.message
                      = <<ExpectedKind(tk[t].err.code), tk[t].finalPath>>
                /\ tk'[t].thrown.code = tk[t].err.code]_vars

\* a write step failed with EPERM and the push raised the permission-denied
\* error with that code
C7_Witness ==
    \E t \in Tasks :
        /\ tk[t].thrown.cls = "PushError"
        /\ tk[t].thrown.code = "EPERM"
        /\ tk[t].thrown.message[1] = "Permission denied writing destination"
        /\ tk[t].pc = "done"

\* C8 as stated: the PushFailure recorded for a document that failed carries
\* the document's logical path, the message of the error pushSingleFile
\* raised, and the code of that error whenever it has one.
C8_FailureCarriesCode ==
    [][\A t \in Tasks :
          (EndsDocument(t) /\ Len(tk'[t].failures) > Len(tk[t].failures)) =>
              LET f == tk'[t].failures[Len(tk'[t].failures)]
                  e == tk'[t].thrown
              IN  /\ f.file = tk[t].files[tk[t].i]
                  /\ f.error = e.message
                  /\ e.code # "none" => f.code = e.code]_vars

\* C9 as stated: the notice of a batch pull reports, as pulled, the number of
\* selected documents whose content was overwritten from an external file.
C9_PulledCount ==
    \A t \in Tasks :
        (tk[t].kind = "pullBatch" /\ tk[t].pc = "done") =>
            tk[t].notice = [text |-> "Pulled",
                            arg  |-> <<tk[t].applied, Len(tk[t].files)>>]

\* the candidates of a pull, in the order the claim gives them
Candidates(f) ==
    <<computeTargetFilePath(f, buildPushContext, buildTransformOptions)>>
        \o (IF settings.forceExtension # <<>>
            THEN <<originalPath(f, buildPushContext)>> ELSE <<>>)

\* the first candidate that exists, <<>> for none
FirstExisting(files, cands) ==
    LET ix == {k \in 1..Len(cands) : existsSync(files, cands[k])}
    IN  IF ix = {} THEN <<>> ELSE cands[Min(ix)]

Pulling(t) == tk[t].kind \in {"pull", "pullBatch"} /\ Busy(t)

\* C10: a pull reads the first existing candidate of its document; a step of
\* a pull changes no file or directory of the target tree; it changes the
\* vault only by giving the pulled document exactly the content of that
\* candidate, which it does whenever vault.modify resolves; and a
\* pull-current-note command that finds no candidate ends at once with the
\* not-found notice and the vault as it was.
C10_PullFirstCandidate ==
    [][\A t \in Tasks :
          /\ (tk'[t].pc = "pullread" /\ tk'[t] # tk[t]) =>
                tk'[t].src = FirstExisting(fs, Candidates(tk'[t].files[tk'[t].i]))
          /\ (~Busy(t) /\ tk'[t].kind = "pull" /\ tk'[t] # tk[t]
                /\ FirstExisting(fs, Candidates(tk'[t].files[1])) = <<>>) =>
                /\ tk'[t].pc = "done"
                /\ tk'[t].notice.text = "Target file not found for pull"
                /\ vault' = vault
          /\ (Pulling(t) \/ tk'[t].kind \in {"pull", "pullBatch"}) =>
                /\ fs' = fs
                /\ dirs' = dirs
          /\ Pulling(t) =>
                LET f == tk[t].files[tk[t].i]
                    c == FirstExisting(fs, Candidates(f))
                IN  /\ vault' # vault =>
                          c # <<>> /\ vault' = [vault EXCEPT ![f] = fs[c]]
                    /\ (tk[t].pc = "modify" /\ faultsLeft' = faultsLeft) =>
                          vault'[f] = fs[c]]_vars

\* with a forced extension and both candidates in the target tree, holding
\* different contents, the document was given the content of the first
C10_Witness ==
    \E t \in Tasks :
        /\ tk[t].kind = "pull"
        /\ tk[t].pc = "done"
        /\ tk[t].notice.text = "Note pulled"
        /\ settings.forceExtension # <<>>
        /\ LET f == tk[t].files[1]
               c == Candidates(f)
           IN  /\ c[1] \in DOMAIN fs
               /\ c[2] \in DOMAIN fs
               /\ fs[c[1]] # fs[c[2]]
               /\ vault[f] = fs[c[1]]
               /\ vault[f] # InitialVault[f]

\* the document the task is at
DocOf(t) == tk[t].files[tk[t].i]

\* task t is in a call of pushSingleFile
Pushing(t) == tk[t].kind \in {"push", "pushBatch"} /\ Busy(t)

\* C15: when the temp write or the rename fails, the catch block deletes the
\* temp file if there is one; when the deletion succeeds (or there was nothing
\* to delete) the push ends with no file at final path + ".tmp", and when the
\* deletion fails nothing changes; either way the error the caller gets is the
\* classified error of the write or rename failure, with its code.
C15_TempCleanup ==
    [][\A t \in Tasks :
          /\ (tk[t].pc \in {"write", "writing", "rename"} /\ faultsLeft' < faultsLeft) =>
                /\ tk'[t].pc = IF tk[t].tmp \in DOMAIN fs THEN "unlink" ELSE "catch"
                /\ tk'[t].tmp = TmpPath(tk[t].finalPath)
                /\ fs' = fs
          /\ (tk[t].pc \in {"catch", "unlink"} /\ tk'[t] # tk[t]) =>
                /\ \/ /\ TmpPath(tk[t].finalPath) \notin DOMAIN fs'
                      /\ fs' = WithoutFile(fs, TmpPath(tk[t].finalPath))
                   \/ /\ tk[t].pc = "unlink"
                      /\ fs' = fs
                /\ tk'[t].pc = "done" \/ tk'[t].i = tk[t].i + 1
                /\ tk'[t].thrown =
                      [ cls     |-> "PushError",
                        message |-> <<ExpectedKind(tk[t].err.code), tk[t].finalPath>>,
                        code    |-> tk[t].err.code ]
                /\ tk[t].err.message[2] \in {"open", "write", "rename"}]_vars

\* the rename has failed with the complete content in the temp file, and the
\* catch block is about to delete it
C15_Witness ==
    \E t \in Tasks :
        /\ tk[t].pc = "unlink"
        /\ tk[t].err.message[2] = "rename"
        /\ tk[t].tmp = TmpPath(tk[t].finalPath)
        /\ tk[t].tmp \in DOMAIN fs
        /\ fs[tk[t].tmp] = tk[t].content
        /\ Len(tk[t].content) > 0

\* a step with which pushSingleFile raises an error to its caller
Raises(t) ==
    /\ Pushing(t)
    /\ \/ Len(tk'[t].failures) > Len(tk[t].failures)
       \/ tk[t].kind = "push" /\ tk'[t].pc = "done" /\ tk'[t].notice.text = "error"

\* the files of the target tree when the push of task t began
TreeBefore(t) == IF tk[t].pc = "read" THEN fs ELSE tk[t].before

\* C16: when a push raises an error, at the read, the mkdir, the temp write,
\* the rename or the cleanup, the destination and the final path it had chosen
\* hold what they held when the push began (the same content, or no file),
\* and the push produces no PushResult: nothing is added to successes and no
\* success is reported.
C16_FailureLeavesDestination ==
    [][\A t \in Tasks :
          Raises(t) =>
              /\ \A p \in {DestOf(DocOf(t))}
                            \cup (IF tk[t].finalPath # <<>> THEN {tk[t].finalPath} ELSE {}) :
                    Observed(fs', p) = Observed(TreeBefore(t), p)
              /\ tk'[t].successes = tk[t].successes
              /\ pushed' = pushed
              /\ tk'[t].thrown.cls \in {"Error", "PushError"}]_vars

\* a push-current-note over an existing destination ended with a write
\* error, and the destination still holds its old content
C16_Witness ==
    \E t \in Tasks :
        /\ tk[t].kind = "push"
        /\ tk[t].pc = "done"
        /\ tk[t].notice.text = "error"
        /\ tk[t].thrown.cls = "PushError"
        /\ settings.overwriteExisting
        /\ tk[t].thrown.message[2] = DestOf(tk[t].files[1])
        /\ tk[t].thrown.message[2] \in DOMAIN fs
        /\ fs[tk[t].thrown.message[2]] = OldContent(tk[t].thrown.message[2])

\* C19 as stated: with overwriteExisting off, no step of a push changes the
\* content of, or removes, a regular file that was in the target tree when
\* the push began, the file at final path + ".tmp" included.
C19_NoClobber ==
    [][\A t \in Tasks :
          (Pushing(t) /\ ~settings.overwriteExisting) =>
              \A p \in DOMAIN TreeBefore(t) :
                  p \in DOMAIN fs' /\ fs'[p] = TreeBefore(t)[p]]_vars

\* the numbered siblings of a destination that exist
NumberedSiblings(files, destPath) ==
    {p \in DOMAIN files \cup dirs : IsNumbered(p, destPath)}

\* C18: the suffix index the collision loop of a push stops at is at most
\* the number of existing numbered siblings plus one; until it returns, the
\* loop of a pushMultiple call goes through the documents one by one, in
\* order; and every pushMultiple call eventually returns, with one outcome
\* per document.
C18_BatchTerminates ==
    /\ [](\A t \in Tasks :
            (tk[t].pc = "write" /\ tk[t].finalPath # tk[t].destPath) =>
                \E i \in 1..(Cardinality(NumberedSiblings(fs, tk[t].destPath)) + 1) :
                    tk[t].finalPath = Numbered(tk[t].destPath, i))
    /\ [][\A t \in Tasks :
            (tk[t].kind = "pushBatch" /\ tk[t].pc # "done") =>
                /\ tk'[t].i \in {tk[t].i, tk[t].i + 1}
                /\ tk'[t].i <= Len(tk[t].files)]_vars
    /\ \A t \in Tasks :
          (tk[t].kind = "pushBatch") ~>
              (/\ tk[t].pc = "done"
               /\ tk[t].i = Len(tk[t].files)
               /\ Len(tk[t].successes) + Len(tk[t].failures) = Len(tk[t].files))

\* a batch of MaxBatch documents has returned, and the collision loop of its
\* last push had to pass two existing numbered siblings
C18_Witness ==
    \E t \in Tasks :
        /\ tk[t].kind = "pushBatch"
        /\ tk[t].pc = "done"
        /\ Len(tk[t].files) = MaxBatch
        /\ Len(tk[t].successes) = MaxBatch
        /\ ~settings.overwriteExisting
        /\ \E d \in {tk[t].successes[MaxBatch].finalPath} :
              d = Numbered(DestOf(tk[t].files[MaxBatch]), 3)

\* the documents of a batch have pairwise distinct logical paths
DistinctPaths(files) ==
    \A j, k \in 1..Len(files) : j # k => files[j] # files[k]

\* the transformed content that the push behind the k-th success record of a
\* returned batch wrote (the pushes of the batch are the last ones that
\* returned)
WrittenBy(t, k) ==
    pushed[Len(pushed) - Len(tk[t].successes) + k].content

\* C21 as stated: in a batch push over documents with pairwise distinct
\* logical paths, for every setting of replicateFolders, overwriteExisting and
\* forceExtension, when the batch returns the file at each success record's
\* finalPath holds that document's own transformed content.
C21_OwnContent ==
    \A t \in Tasks :
        (/\ tk[t].kind = "pushBatch"
         /\ tk[t].pc = "done"
         /\ DistinctPaths(tk[t].files)) =>
            \A k \in 1..Len(tk[t].successes) :
                /\ tk[t].successes[k].finalPath \in DOMAIN fs
                /\ fs[tk[t].successes[k].finalPath] = WrittenBy(t, k)

(***************************************************************************)
(* Properties of a push followed by a pull (PushPullSpec).                 *)
(***************************************************************************)
\* the last push that returned
LastPushed == pushed[Len(pushed)]

\* C17: with overwriteExisting on, the pull of a document that follows a
\* successful push of that document, under the same settings, finds the file
\* the push wrote (its finalPath) as its first candidate, reads the content
\* the push wrote, and ends with "Note pulled" and the document holding
\* exactly that content.
C17_PullFindsPushed ==
    \A t \in Tasks :
        (/\ tk[t].kind = "pull"
         /\ settings.overwriteExisting
         /\ pushed # <<>>
         /\ LastPushed.source = tk[t].files[1]) =>
            /\ tk[t].pc \in {"pullread", "modify", "done"}
            /\ tk[t].pc = "pullread" =>
                  /\ tk[t].src = LastPushed.finalPath
                  /\ fs[tk[t].src] = LastPushed.content
            /\ tk[t].pc = "modify" => tk[t].pulledText = LastPushed.content
            /\ tk[t].pc = "done" =>
                  /\ tk[t].notice.text = "Note pulled"
                  /\ tk[t].notice.arg = LastPushed.finalPath
                  /\ vault[tk[t].files[1]] = LastPushed.content

\* a document in a folder was pushed, flattened, under a forced extension
\* and with its frontmatter stripped, next to a file with its original
\* extension; the pull that followed gave it the stripped content
C17_Witness ==
    \E t \in Tasks :
        /\ tk[t].kind = "pull"
        /\ tk[t].pc = "done"
        /\ settings.overwriteExisting
        /\ settings.forceExtension # <<>>
        /\ ~settings.replicateFolders
        /\ pushed # <<>>
        /\ LastPushed.source = DocDA
        /\ tk[t].files = <<DocDA>>
        /\ originalPath(DocDA, buildPushContext) \in DOMAIN fs
        /\ vault[DocDA] = LastPushed.content
        /\ vault[DocDA] # InitialVault[DocDA]

(***************************************************************************)
(* Properties of two pushes in flight at once (ConcSpec).                  *)
(***************************************************************************)
\* C20 as stated: when two push-current-note commands whose documents
\* resolve to the same destination were in flight at once with
\* overwriteExisting off, and both are over, both have returned, their
\* finalPaths differ and each finalPath holds the content its push wrote.
C20_ConcurrentPushes ==
    (/\ ~settings.overwriteExisting
     /\ \A t \in Tasks : tk[t].kind = "push" /\ tk[t].pc = "done"
     /\ \A t, u \in Tasks : DestOf(tk[t].files[1]) = DestOf(tk[u].files[1])) =>
        /\ \A t \in Tasks : tk[t].notice.text = "Note pushed"
        /\ Len(pushed) = Cardinality(Tasks)
        /\ \A j, k \in 1..Len(pushed) :
              j # k => pushed[j].finalPath # pushed[k].finalPath
        /\ \A k \in 1..Len(pushed) :
              /\ pushed[k].finalPath \in DOMAIN fs
              /\ fs[pushed[k].finalPath] = pushed[k].content

(***************************************************************************)
(* Properties of the pure functions (PureSpec).                            *)
(***************************************************************************)
\* the task has just called transformContent and computed its destination
Transformed(t) == tk[t].pc = "mkdir"

\* the result of the call the task has made
ResultOf(t) == [content |-> tk[t].content, transformed |-> tk[t].transformed]

\* points in time of another call: every half minute the clock can reach
OtherTimes == { k * 30 : k \in 0..(2 * MaxTicks) }

\* the timestamp a call at time t2 renders
StampAt(t2) ==
    formatTimestamp(IF settings.timestampFormat = <<>> THEN DefaultTimestampFormat
                    ELSE settings.timestampFormat, t2)

\* C11 as stated: a call of transformContent with the (raw, opts) of the call
\* the push has made, at any other point in time, returns the same (content,
\* transformed); and with both flags off the result is (raw, false).
C11_Original ==
    \A t \in Tasks :
        Transformed(t) =>
            /\ \A t2 \in OtherTimes :
                  transformContent(vault[DocOf(t)], buildTransformOptions, t2) = ResultOf(t)
            /\ (~settings.sanitizeFrontmatter /\ ~settings.addTimestampHeader) =>
                  ResultOf(t) = [content |-> vault[DocOf(t)], transformed |-> FALSE]

\* C11 (amended): two calls with identical (raw, opts) return identical
\* (content, transformed) when addTimestampHeader is off, at any two points in
\* time, and when it is on, at two points in time that timestampFormat renders
\* alike, and only then; with both flags off the result is (raw, false).
C11_Deterministic ==
    \A t \in Tasks :
        Transformed(t) =>
            /\ \A t2 \in OtherTimes :
                  (transformContent(vault[DocOf(t)], buildTransformOptions, t2) = ResultOf(t))
                      <=> (~settings.addTimestampHeader \/ StampAt(t2) = StampAt(now))
            /\ (~settings.sanitizeFrontmatter /\ ~settings.addTimestampHeader) =>
                  ResultOf(t) = [content |-> vault[DocOf(t)], transformed |-> FALSE]

\* a call made after the clock advanced, with the header on: it returns what
\* a call half a minute later returns, and not what a call a minute earlier
\* returns
C11_Witness ==
    \E t \in Tasks :
        /\ Transformed(t)
        /\ settings.addTimestampHeader
        /\ now > 0
        /\ transformContent(vault[DocOf(t)], buildTransformOptions, now + 30) = ResultOf(t)
        /\ transformContent(vault[DocOf(t)], buildTransformOptions, 0) # ResultOf(t)

\* a line that is exactly "---"
Dashes == <<"-", "-", "-">>

\* the lines of a text, and the text of a sequence of lines
Lines(s) == Split(s, NL)

RECURSIVE JoinLines(_)
JoinLines(ls) ==
    IF Len(ls) = 0 THEN <<>>
    ELSE IF Len(ls) = 1 THEN ls[1]
    ELSE ls[1] \o <<NL>> \o JoinLines(Tail(ls))

\* what the claim makes of a raw content: without its leading block, up to
\* and including the first later line that is exactly "---" and that line's
\* newline, when the first line is exactly "---" and such a line follows
FrontmatterStripped(raw) ==
    LET ls      == Lines(raw)
        closing == {k \in 2..Len(ls) : ls[k] = Dashes}
    IN  IF ls[1] = Dashes /\ closing # {}
        THEN [content     |-> JoinLines(SubSeq(ls, Min(closing) + 1, Len(ls))),
              transformed |-> TRUE]
        ELSE [content |-> raw, transformed |-> FALSE]

\* C12 as stated: with sanitizeFrontmatter on and no timestamp header,
\* transformContent removes the shortest leading block that runs from a first
\* line that is exactly "---" to a later line that is exactly "---" (and that
\* line's newline, if any) and reports transformed; every other content it
\* returns as it is, not transformed.
C12_FrontmatterStripped ==
    \A t \in Tasks :
        (Transformed(t) /\ settings.sanitizeFrontmatter /\ ~settings.addTimestampHeader) =>
            ResultOf(t) = FrontmatterStripped(vault[DocOf(t)])

\* the path of a sequence of segments
RECURSIVE JoinSegments(_)
JoinSegments(segs) ==
    IF Len(segs) = 0 THEN <<>>
    ELSE IF Len(segs) = 1 THEN segs[1]
    ELSE segs[1] \o <<"/">> \o JoinSegments(Tail(segs))

\* a segment with its last extension (a dot followed by at least one
\* character) replaced by ext; ext appended when it has none
WithExtension(seg, ext) ==
    LET dots == {k \in 1..Len(seg) : seg[k] = "."}
    IN  IF dots # {} /\ Max(dots) < Len(seg)
        THEN SubSeq(seg, 1, Max(dots) - 1) \o ext
        ELSE seg \o ext

\* what the claim makes of a logical path under a forced extension: the
\* segments kept (the last one only when flattening), the extension of the
\* last one rewritten
ForcedRelative(filePath, replicate, ext) ==
    LET segs == Split(filePath, "/")
        n    == Len(segs)
        kept == IF replicate THEN SubSeq(segs, 1, n - 1) ELSE <<>>
    IN  JoinSegments(Append(kept, WithExtension(segs[n], ext)))

\* C13 as stated: with a non-empty forceExtension, the destination of a push
\* (and the target path of a pull) is targetBase joined with the logical path
\* (its final segment when flattening) in which only the final segment's last
\* extension is replaced by forceExtension, or has it appended when it has no
\* extension; the directory components are as in the logical path.
C13_ForcedExtension ==
    \A t \in Tasks :
        (Transformed(t) /\ settings.forceExtension # <<>>) =>
            LET want == join(TargetBase,
                             ForcedRelative(DocOf(t), settings.replicateFolders,
                                            settings.forceExtension))
            IN  /\ tk[t].destPath = want
                /\ computeTargetFilePath(DocOf(t), buildPushContext,
                                         buildTransformOptions) = want

\* C14: without a forced extension, the segments of the destination are
\* those of targetBase followed, with replicateFolders on, by all the segments
\* of the logical path in order and, with replicateFolders off, by its final
\* segment alone.
C14_FlattenOrReplicate ==
    \A t \in Tasks :
        (Transformed(t) /\ settings.forceExtension = <<>>) =>
            LET segs == Split(DocOf(t), "/")
                base == Split(TargetBase, "/")
            IN  Split(tk[t].destPath, "/") =
                    IF settings.replicateFolders THEN base \o segs
                    ELSE Append(base, segs[Len(segs)])

\* a document two folders deep was flattened: its destination is its final
\* segment directly under targetBase
C14_Witness ==
    \E t \in Tasks :
        /\ Transformed(t)
        /\ settings.forceExtension = <<>>
        /\ ~settings.replicateFolders
        /\ Len(Split(DocOf(t), "/")) = 3
        /\ dirname(tk[t].destPath) = TargetBase
        /\ tk[t].destPath = join(TargetBase, basename(DocOf(t)))

====
